---- MODULE Spec2Model ----
(***************************************************************************)
(* Subscription backend (src/main.py, src/schemas.py): the document store, *)
(* the session cookie, the plan catalogue and the HTTP handlers, one       *)
(* action per handler.  A request is handled in one step; for requests     *)
(* handled concurrently a handler is also given as the steps between which *)
(* other requests and the clock can act.                                   *)
(*                                                                         *)
(* Python values: None is the empty tuple and a present optional value v   *)
(* is <<v>>.  A string whose characters the code inspects (TIN, phone,     *)
(* password hash, error text) is a tuple of characters; other strings are  *)
(* TLA+ strings.  An ObjectId and the text str() makes of it are different *)
(* values, as they are for the store's equality match.                     *)
(***************************************************************************)
EXTENDS Integers, Sequences, FiniteSets, TLC

VARIABLES
    db,         \* TRUE when the database handle exists (db is not None)
    env,        \* which of DATABASE_URL, DATABASE_NAME are set
    now,        \* the clock, in instants
    users,      \* the "user" collection, in insertion order
    sessions,   \* the "session" collection
    clients,    \* the "client" collection
    invoices,   \* the "invoice" collection
    issued,     \* how many session tokens secrets.token_urlsafe has produced
    response,   \* the last request handled and the answer it got
    inflight,   \* per worker thread: the request it is handling, the step
                \* it has reached and the handler's local variables
    loggedOut,  \* history: the tokens a completed logout has carried
    issuedTo,   \* history: issuedTo[t] is the email of the request that got token t
    registered, \* history: the email and plan of every registration that succeeded
    createdBy,  \* history: createdBy[i] is the email of the account whose token
                \* the request carried that stored the i-th client
    invoicedBy  \* history: the same for the i-th invoice

vars == <<db, env, now, users, sessions, clients, invoices, issued, response,
          inflight, loggedOut, issuedTo, registered, createdBy, invoicedBy>>
store == <<users, sessions, clients, invoices>>
history == <<loggedOut, issuedTo, registered, createdBy, invoicedBy>>

-----------------------------------------------------------------------------
(* Python values *)

None == << >>
Some(v) == <<v>>

Min(a, b) == IF a < b THEN a ELSE b

\* s[:n]
Truncate(s, n) == SubSeq(s, 1, Min(n, Len(s)))

\* the characters str.isdigit() accepts: the ASCII digits and, as one
\* representative of the other Unicode digits, ARABIC-INDIC DIGIT THREE
PyDigits == {"0", "1", "2", "3", "4", "5", "6", "7", "8", "9", "U+0663"}

\* str.isdigit(): every character is a digit and there is at least one
isdigit(s) == Len(s) > 0 /\ \A i \in 1..Len(s) : s[i] \in PyDigits

\* s.startswith(p)
startswith(s, p) == Len(s) >= Len(p) /\ SubSeq(s, 1, Len(p)) = p

\* needle in hay, for strings
IsSubstring(needle, hay) ==
    \E i \in 0..(Len(hay) - Len(needle)) : SubSeq(hay, i + 1, i + Len(needle)) = needle

-----------------------------------------------------------------------------
(* schemas.py: field validators *)

TIN_LEN == 9
PHONE_LEN == 13
PHONE_PREFIX == <<"+", "2", "4", "4">>

\* TRUE when the validator returns, FALSE when it raises ValueError
validate_tin(v) ==
    IF v = None \/ v = Some(<< >>) THEN TRUE
    ELSE Len(v[1]) = TIN_LEN /\ isdigit(v[1])

validate_phone(v) ==
    IF v = None \/ v = Some(<< >>) THEN TRUE
    ELSE /\ startswith(v[1], PHONE_PREFIX)
         /\ Len(v[1]) = PHONE_LEN
         /\ isdigit(Tail(v[1]))

\* Invoice.amount: Field(..., gt=0); amounts are in hundredths
amount_ok(amount) == amount > 0

-----------------------------------------------------------------------------
(* the clock: datetime.utcnow() and date.today() *)

TicksPerDay == 2
DaysPerMonth == 2
SESSION_DAYS == 30

\* the calendar day of an instant
DayOf(t) == t \div TicksPerDay

\* date.today()
today == DayOf(now)

\* datetime.utcnow().replace(day=1, hour=0, minute=0, second=0, microsecond=0)
MonthStart(t) == t - (t % (TicksPerDay * DaysPerMonth))

\* InvoiceCreate.date_issued: date = date.today(), evaluated once, when the
\* class body runs at import; the process starts at instant 0
DefaultDateIssued == DayOf(0)

\* Invoice.no_future_issue_date
no_future_issue_date(d) == ~(d > today)

-----------------------------------------------------------------------------
(* main.py: plan catalogue *)

BASIC_CLIENT_LIMIT == 15
BASIC_INVOICE_MONTHLY_LIMIT == 20
PROFESSIONAL_CLIENT_LIMIT == 50

PlanName == {"basic", "professional", "enterprise"}

PLANS ==
    [basic |-> [name |-> "basic",
                client_limit |-> Some(BASIC_CLIENT_LIMIT),
                invoice_monthly_limit |-> Some(BASIC_INVOICE_MONTHLY_LIMIT)],
     professional |-> [name |-> "professional",
                       client_limit |-> Some(PROFESSIONAL_CLIENT_LIMIT),
                       invoice_monthly_limit |-> None],
     enterprise |-> [name |-> "enterprise",
                     client_limit |-> None,
                     invoice_monthly_limit |-> None]]

get_plan_limits(user_doc) ==
    LET plan == user_doc.subscription.plan
    IN  IF plan \in DOMAIN PLANS THEN PLANS[plan] ELSE PLANS["basic"]

-----------------------------------------------------------------------------
(* the document store, as main.py uses it *)

\* a store-generated _id: the n-th document inserted into collection coll
ObjectId(coll, n) == [type |-> "ObjectId", coll |-> coll, n |-> n]

\* str(oid): the hexadecimal text of an ObjectId, a string and no ObjectId
str(oid) == [type |-> "str", coll |-> oid.coll, n |-> oid.n]

\* a filter document: fields to equal and fields to be at least ($gte)
Eq(fields) == [eq |-> fields, gte |-> << >>]
EqGte(fields, bounds) == [eq |-> fields, gte |-> bounds]

\* whether a document matches a filter; equality is between values of the
\* same type: an ObjectId never equals a string
matches(d, filter) ==
    /\ \A k \in DOMAIN filter.eq : d[k] = filter.eq[k]
    /\ \A k \in DOMAIN filter.gte : d[k] >= filter.gte[k]

\* collection.find(filter): the documents the filter matches, in order
find(coll, filter) == SelectSeq(coll, LAMBDA d : matches(d, filter))

\* collection.find_one(filter): the first match, or None
find_one(coll, filter) ==
    LET m == find(coll, filter) IN IF m = << >> THEN None ELSE Some(m[1])

\* collection.count_documents(filter)
count_documents(coll, filter) == Len(find(coll, filter))

\* collection.delete_many(filter): what is left
delete_many(coll, filter) == SelectSeq(coll, LAMBDA d : ~matches(d, filter))

\* collection.insert_one(doc): the collection afterwards; the store adds _id
insert_one(coll, oid, doc) == Append(coll, [_id |-> oid] @@ doc)

\* the _id the store gives the next document of a collection that only grows
inserted_id(coll, name) == ObjectId(name, Len(coll) + 1)

\* db.list_collection_names(): a collection exists once it holds a document
list_collection_names ==
    {c \in {"user", "session", "client", "invoice"} :
        \/ c = "user" /\ users # << >>
        \/ c = "session" /\ issued > 0
        \/ c = "client" /\ clients # << >>
        \/ c = "invoice" /\ invoices # << >>}

-----------------------------------------------------------------------------
(* responses *)

\* a request, the instant it was handled at, and the answer
Resp(endpoint, cookie, request, status, body) ==
    [endpoint |-> endpoint, cookie |-> cookie, request |-> request, at |-> now,
     status |-> status, body |-> body]

\* raise HTTPException(status, detail)
HTTPError(status, detail) == [ok |-> FALSE, status |-> status, detail |-> detail]

\* an exception no handler catches (pydantic's ValidationError raised inside
\* an endpoint, TypeError on db[...] when db is None): the framework answers
\* 500 Internal Server Error
ServerError == HTTPError(500, "Internal Server Error")

\* the request body fails the endpoint's request model: the framework
\* answers 422 before the endpoint runs
RequestValidationError == HTTPError(422, "Unprocessable Entity")

ErrBody(e) == [detail |-> e.detail]

-----------------------------------------------------------------------------
(* worker threads: the endpoints are plain functions, which the framework  *)
(* runs on the threads of a pool                                           *)

MaxThreads == 2
Threads == 1..MaxThreads

\* a thread that is handling no request
Idle == [pc |-> "idle", cookie |-> None, request |-> None, local |-> None]

\* a thread inside a handler: the step it is about to take and the handler's
\* local variables
At(pc, cookie, request, local) ==
    [pc |-> pc, cookie |-> cookie, request |-> request, local |-> local]

-----------------------------------------------------------------------------
(* main.py: sessions and passwords *)

\* cookie values that are no issued token: "" and a value the client made up
EmptyToken == 0
ForgedToken == -1

\* secrets.token_urlsafe(32): 256 random bits, modelled as a value never
\* produced before and that no client can present before it is issued
token_urlsafe == issued + 1

\* the cookies a client can present: none, "", a made-up value, or a token
\* some response has carried
Cookies ==
    {None, Some(EmptyToken), Some(ForgedToken)} \cup {Some(t) : t \in 1..issued}

\* str(abs(hash(p))) for the process's hash seed: one sample assignment; the
\* digits of "pw3" occur inside those of "pw1".  hash("") is 0 under every
\* seed.
AbsHashStr(p) ==
    CASE p = "" -> <<"0">>
      [] p = "pw1" -> <<"7", "1", "3">>
      [] p = "pw2" -> <<"4", "0", "5">>
      [] p = "pw3" -> <<"1", "3">>
      [] OTHER -> <<"9">>

\* secrets.token_hex(8), shortened
Salts == {<<"a", "f">>}

hash_password(p, salt) == salt \o AbsHashStr(p)

\* str(abs(hash(payload.password))) not in user.get("password_hash", "")
password_matches(password, user) == IsSubstring(AbsHashStr(password), user.password_hash)

\* as get_current_user, but the session's user_id is not used to find the user
get_current_user_any_user(cookie) ==
    IF cookie = None \/ cookie = Some(EmptyToken)
    THEN HTTPError(401, "Not authenticated")
    ELSE IF ~db THEN ServerError
    ELSE LET sess == find_one(sessions, Eq([token |-> cookie[1]]))
         IN  IF sess = None THEN HTTPError(401, "Invalid session")
             ELSE LET user == find_one(users, Eq(<< >>))
                  IN  IF user = None THEN HTTPError(401, "User not found")
                      ELSE [ok |-> TRUE, user |-> user[1]]

\* as get_current_user, but a session whose expires_at has passed is no session
get_current_user_expiring(cookie) ==
    IF cookie = None \/ cookie = Some(EmptyToken)
    THEN HTTPError(401, "Not authenticated")
    ELSE IF ~db THEN ServerError
    ELSE LET sess == find_one(sessions, Eq([token |-> cookie[1]]))
         IN  IF sess = None \/ sess[1].expires_at < now
             THEN HTTPError(401, "Invalid session")
             ELSE LET user == find_one(users, Eq([_id |-> sess[1].user_id]))
                  IN  IF user = None THEN HTTPError(401, "User not found")
                      ELSE [ok |-> TRUE, user |-> user[1]]

get_current_user(cookie) ==
    IF cookie = None \/ cookie = Some(EmptyToken)
    THEN HTTPError(401, "Not authenticated")
    ELSE IF ~db THEN ServerError
    ELSE LET sess == find_one(sessions, Eq([token |-> cookie[1]]))
         IN  IF sess = None THEN HTTPError(401, "Invalid session")
             ELSE LET user == find_one(users, Eq([_id |-> sess[1].user_id]))
                  IN  IF user = None THEN HTTPError(401, "User not found")
                      ELSE [ok |-> TRUE, user |-> user[1]]

\* as new_session, but user_id is stored as text, the way owner_id is
new_session_str_user_id(user_id, token) ==
    [user_id |-> str(user_id), token |-> token, created_at |-> now,
     expires_at |-> now + SESSION_DAYS * TicksPerDay]

\* the session document register and login insert
new_session(user_id, token) ==
    [user_id |-> user_id, token |-> token, created_at |-> now,
     expires_at |-> now + SESSION_DAYS * TicksPerDay]

-----------------------------------------------------------------------------
(* main.py: auth endpoints *)

\* as register_check, without the unique-email test
register_check_no_unique(payload) ==
    IF payload.plan \notin PlanName THEN RequestValidationError
    ELSE IF ~db THEN ServerError
    ELSE IF ~(validate_tin(payload.company_tin) /\ validate_phone(payload.phone))
    THEN ServerError
    ELSE [ok |-> TRUE]

\* the part of register before anything is written
register_check(payload) ==
    IF payload.plan \notin PlanName THEN RequestValidationError
    ELSE IF ~db THEN ServerError
    ELSE IF find_one(users, Eq([email |-> payload.email])) # None
    THEN HTTPError(400, "Email already registered")
    ELSE IF ~(validate_tin(payload.company_tin) /\ validate_phone(payload.phone))
    THEN ServerError
    ELSE [ok |-> TRUE]

\* User(...).model_dump() as register builds it
new_user(payload, salt) ==
    [name |-> IF payload.name = None THEN "User" ELSE payload.name[1],
     email |-> payload.email,
     password_hash |-> hash_password(payload.password, salt),
     company_name |-> payload.company_name,
     company_tin |-> payload.company_tin,
     phone |-> payload.phone,
     subscription |-> [plan |-> payload.plan, started_at |-> now,
                       renews_at |-> None, status |-> "active"],
     role |-> "owner",
     is_active |-> TRUE]

\* POST /auth/register
register(payload, salt) ==
    LET out == register_check(payload)
        user_id == inserted_id(users, "user")
        token == token_urlsafe
    IN  /\ IF out.ok
           THEN /\ users' = insert_one(users, user_id, new_user(payload, salt))
                /\ sessions' = insert_one(sessions, ObjectId("session", token),
                                          new_session(user_id, token))
                /\ issued' = issued + 1
                /\ response' = Resp("POST /auth/register", None, payload, 200,
                                    [ok |-> TRUE, set_cookie |-> token])
                /\ issuedTo' = Append(issuedTo, payload.email)
                /\ registered' = registered \cup
                                     {[email |-> payload.email, plan |-> payload.plan]}
           ELSE /\ UNCHANGED <<users, sessions, issued, issuedTo, registered>>
                /\ response' = Resp("POST /auth/register", None, payload,
                                    out.status, ErrBody(out))
        /\ UNCHANGED <<db, env, inflight, now, clients, invoices, loggedOut, createdBy, invoicedBy>>

\* the part of login before anything is written
login_check(payload) ==
    IF ~db THEN ServerError
    ELSE LET user == find_one(users, Eq([email |-> payload.email]))
         IN  IF user = None THEN HTTPError(401, "Invalid credentials")
             ELSE IF ~password_matches(payload.password, user[1])
             THEN HTTPError(401, "Invalid credentials")
             ELSE [ok |-> TRUE, user |-> user[1]]

\* POST /auth/login
login(payload) ==
    LET out == login_check(payload)
        token == token_urlsafe
    IN  /\ IF out.ok
           THEN /\ sessions' = insert_one(sessions, ObjectId("session", token),
                                          new_session(out.user._id, token))
                /\ issued' = issued + 1
                /\ response' = Resp("POST /auth/login", None, payload, 200,
                                    [ok |-> TRUE, set_cookie |-> token])
                /\ issuedTo' = Append(issuedTo, payload.email)
           ELSE /\ UNCHANGED <<sessions, issued, issuedTo>>
                /\ response' = Resp("POST /auth/login", None, payload,
                                    out.status, ErrBody(out))
        /\ UNCHANGED <<db, env, inflight, now, users, clients, invoices, loggedOut, registered,
                       createdBy, invoicedBy>>

\* as logout, but the session documents stay
logout_keeps_session(cookie) ==
    LET truthy == cookie # None /\ cookie # Some(EmptyToken)
    IN  /\ IF truthy /\ ~db
           THEN /\ UNCHANGED <<sessions, loggedOut>>
                /\ response' = Resp("POST /auth/logout", cookie, None,
                                    ServerError.status, ErrBody(ServerError))
           ELSE /\ sessions' = sessions
                /\ loggedOut' = IF truthy THEN loggedOut \cup {cookie[1]}
                                ELSE loggedOut
                /\ response' = Resp("POST /auth/logout", cookie, None, 200,
                                    [ok |-> TRUE, delete_cookie |-> TRUE])
        /\ UNCHANGED <<db, env, inflight, now, users, clients, invoices, issued, issuedTo, registered,
                       createdBy, invoicedBy>>

\* POST /auth/logout
logout(cookie) ==
    LET truthy == cookie # None /\ cookie # Some(EmptyToken)
    IN  /\ IF truthy /\ ~db
           THEN /\ UNCHANGED <<sessions, loggedOut>>
                /\ response' = Resp("POST /auth/logout", cookie, None,
                                    ServerError.status, ErrBody(ServerError))
           ELSE /\ sessions' = IF truthy
                               THEN delete_many(sessions, Eq([token |-> cookie[1]]))
                               ELSE sessions
                /\ loggedOut' = IF truthy THEN loggedOut \cup {cookie[1]}
                                ELSE loggedOut
                /\ response' = Resp("POST /auth/logout", cookie, None, 200,
                                    [ok |-> TRUE, delete_cookie |-> TRUE])
        /\ UNCHANGED <<db, env, inflight, now, users, clients, invoices, issued, issuedTo, registered,
                       createdBy, invoicedBy>>

\* GET /auth/me
me(cookie) ==
    LET auth == get_current_user(cookie)
    IN  /\ response' =
              IF ~auth.ok THEN Resp("GET /auth/me", cookie, None, auth.status, ErrBody(auth))
              ELSE Resp("GET /auth/me", cookie, None, 200,
                        [name |-> auth.user.name,
                         email |-> auth.user.email,
                         plan |-> auth.user.subscription.plan,
                         role |-> auth.user.role])
        /\ UNCHANGED <<db, env, inflight, now, store, issued, history>>

-----------------------------------------------------------------------------
(* main.py: clients *)

\* the document with _id replaced by "id": str(_id), as list_clients returns it
with_id(d) ==
    [k \in (DOMAIN d \ {"_id"}) \cup {"id"} |-> IF k = "id" THEN str(d._id) ELSE d[k]]

\* GET /clients
list_clients(cookie) ==
    LET auth == get_current_user(cookie)
    IN  /\ response' =
              IF ~auth.ok
              THEN Resp("GET /clients", cookie, None, auth.status, ErrBody(auth))
              ELSE LET items == find(clients, Eq([owner_id |-> auth.user._id]))
                   IN  Resp("GET /clients", cookie, None, 200,
                            [i \in 1..Len(items) |-> with_id(items[i])])
        /\ UNCHANGED <<db, env, inflight, now, store, issued, history>>

\* the part of add_client before anything is written
add_client_check(cookie, payload) ==
    LET auth == get_current_user(cookie)
    IN  IF ~auth.ok THEN auth
        ELSE LET limits == get_plan_limits(auth.user)
                 current_count ==
                     count_documents(clients, Eq([owner_id |-> auth.user._id]))
             IN  IF limits.client_limit # None /\ current_count >= limits.client_limit[1]
                 THEN HTTPError(402, "Client limit reached for your plan. Please upgrade.")
                 ELSE IF ~(validate_tin(payload.tin) /\ validate_phone(payload.phone))
                 THEN ServerError
                 ELSE auth

\* as add_client, but the document is inserted before Client(...) validates it
add_client_insert_then_validate(cookie, payload) ==
    LET auth == get_current_user(cookie)
        out == add_client_check(cookie, payload)
        new_id == inserted_id(clients, "client")
        inserts == auth.ok /\ (out.ok \/ out = ServerError)
    IN  /\ IF inserts
           THEN /\ clients' = insert_one(clients, new_id,
                                         [owner_id |-> str(auth.user._id)] @@ payload)
                /\ createdBy' = Append(createdBy, issuedTo[cookie[1]])
           ELSE UNCHANGED <<clients, createdBy>>
        /\ response' = IF out.ok
                       THEN Resp("POST /clients", cookie, payload, 200, [id |-> str(new_id)])
                       ELSE Resp("POST /clients", cookie, payload, out.status, ErrBody(out))
        /\ UNCHANGED <<db, env, inflight, now, users, sessions, invoices, issued,
                       loggedOut, issuedTo, registered, invoicedBy>>

\* POST /clients
add_client(cookie, payload) ==
    LET out == add_client_check(cookie, payload)
        new_id == inserted_id(clients, "client")
    IN  /\ IF out.ok
           THEN /\ clients' = insert_one(clients, new_id,
                                         [owner_id |-> str(out.user._id)] @@ payload)
                /\ response' = Resp("POST /clients", cookie, payload, 200,
                                    [id |-> str(new_id)])
                /\ createdBy' = Append(createdBy, issuedTo[cookie[1]])
           ELSE /\ UNCHANGED <<clients, createdBy>>
                /\ response' = Resp("POST /clients", cookie, payload,
                                    out.status, ErrBody(out))
        /\ UNCHANGED <<db, env, inflight, now, users, sessions, invoices, issued,
                       loggedOut, issuedTo, registered, invoicedBy>>

-----------------------------------------------------------------------------
(* main.py: invoices *)

\* count_documents({"owner_id": user["_id"], "created_at": {"$gte": start}})
monthly_count(user) ==
    LET start == MonthStart(now)
    IN  count_documents(invoices,
                        EqGte([owner_id |-> user._id], [created_at |-> start]))

\* GET /invoices/monthly-count
invoices_monthly_count(cookie) ==
    LET auth == get_current_user(cookie)
    IN  /\ response' =
              IF ~auth.ok
              THEN Resp("GET /invoices/monthly-count", cookie, None,
                        auth.status, ErrBody(auth))
              ELSE Resp("GET /invoices/monthly-count", cookie, None, 200,
                        [count |-> monthly_count(auth.user)])
        /\ UNCHANGED <<db, env, inflight, now, store, issued, history>>

\* the request body as InvoiceCreate parses it: an absent date_issued takes
\* the class's default
invoice_fields(payload) ==
    [client_id |-> payload.client_id,
     amount |-> payload.amount,
     currency |-> payload.currency,
     description |-> payload.description,
     date_issued |-> IF payload.date_issued = None THEN DefaultDateIssued
                     ELSE payload.date_issued[1],
     due_date |-> payload.due_date]

\* the part of create_invoice before anything is written
create_invoice_check(cookie, payload) ==
    LET auth == get_current_user(cookie)
    IN  IF ~auth.ok THEN auth
        ELSE LET limits == get_plan_limits(auth.user)
             IN  IF /\ auth.user.subscription.plan = "basic"
                    /\ limits.invoice_monthly_limit # None
                    /\ monthly_count(auth.user) >= limits.invoice_monthly_limit[1]
                 THEN HTTPError(402, "Monthly invoice limit reached for BASIC plan.")
                 ELSE IF ~(/\ amount_ok(invoice_fields(payload).amount)
                           /\ no_future_issue_date(invoice_fields(payload).date_issued))
                 THEN ServerError
                 ELSE auth

\* POST /invoices
create_invoice(cookie, payload) ==
    LET out == create_invoice_check(cookie, payload)
        new_id == inserted_id(invoices, "invoice")
    IN  /\ IF out.ok
           THEN /\ invoices' = insert_one(invoices, new_id,
                                  [owner_id |-> str(out.user._id), status |-> "draft",
                                   created_at |-> now, updated_at |-> now]
                                  @@ invoice_fields(payload))
                /\ response' = Resp("POST /invoices", cookie, payload, 200,
                                    [id |-> str(new_id)])
                /\ invoicedBy' = Append(invoicedBy, issuedTo[cookie[1]])
           ELSE /\ UNCHANGED <<invoices, invoicedBy>>
                /\ response' = Resp("POST /invoices", cookie, payload,
                                    out.status, ErrBody(out))
        /\ UNCHANGED <<db, env, inflight, now, users, sessions, clients, issued,
                       loggedOut, issuedTo, registered, createdBy>>

-----------------------------------------------------------------------------
(* main.py: dashboard *)

\* int(0.8 * limit): for the limits of the catalogue the product is exact
\* in floating point (12.0, 16.0, 40.0)
int_08(limit) == (8 * limit) \div 10

\* the body of GET /dashboard/summary for a resolved user
summary(user) ==
    LET limits == get_plan_limits(user)
        clients_count == count_documents(clients, Eq([owner_id |-> user._id]))
        invoices_this_month == monthly_count(user)
        approaching_client_limit ==
            IF limits.client_limit # None /\ limits.client_limit[1] > 0
            THEN clients_count >= int_08(limits.client_limit[1])
            ELSE FALSE
        approaching_invoice_limit ==
            IF user.subscription.plan = "basic" /\ limits.invoice_monthly_limit # None
            THEN invoices_this_month >= int_08(limits.invoice_monthly_limit[1])
            ELSE FALSE
    IN  [plan |-> user.subscription.plan,
         clients_count |-> clients_count,
         invoices_this_month |-> invoices_this_month,
         limits |-> [client_limit |-> limits.client_limit,
                     invoice_monthly_limit |-> limits.invoice_monthly_limit],
         warnings |-> [clients |-> approaching_client_limit,
                       invoices |-> approaching_invoice_limit]]

\* GET /dashboard/summary
dashboard_summary(cookie) ==
    LET auth == get_current_user(cookie)
    IN  /\ response' =
              IF ~auth.ok
              THEN Resp("GET /dashboard/summary", cookie, None, auth.status, ErrBody(auth))
              ELSE Resp("GET /dashboard/summary", cookie, None, 200, summary(auth.user))
        /\ UNCHANGED <<db, env, inflight, now, store, issued, history>>

-----------------------------------------------------------------------------
(* main.py: liveness, diagnostics, support *)

\* GET /
read_root ==
    /\ response' = Resp("GET /", None, None, 200,
                        [message |-> "Subscription Backend Running"])
    /\ UNCHANGED <<db, env, inflight, now, store, issued, history>>

ERROR_TRUNC == 80

\* the characters of "⚠️ Error: " before the exception's text
ERROR_PREFIX == <<"!", " ", "E", "r", "r", "o", "r", ":", " ">>

\* as test_database, without the try/except around the listing
test_database_uncaught(listing) ==
    IF db /\ listing.raised
    THEN /\ response' = Resp("GET /test", None, listing,
                             ServerError.status, ErrBody(ServerError))
         /\ UNCHANGED <<db, env, inflight, now, store, issued, history>>
    ELSE /\ response' = Resp("GET /test", None, listing, 200,
                             [database |-> IF db THEN "Connected & Working"
                                           ELSE "Not Available",
                              connection_status |-> IF db THEN "Connected"
                                                    ELSE "Not Connected",
                              collections |-> IF db THEN list_collection_names ELSE {}])
         /\ UNCHANGED <<db, env, inflight, now, store, issued, history>>

\* GET /test.  listing is what db.list_collection_names() does when called:
\* [raised |-> FALSE] or [raised |-> TRUE, text |-> str(e)]
test_database(listing) ==
    LET start == [backend |-> "Running",
                  database |-> "Not Available",
                  database_url |-> IF env.DATABASE_URL THEN "Set" ELSE "Not Set",
                  database_name |-> IF env.DATABASE_NAME THEN "Set" ELSE "Not Set",
                  connection_status |-> "Not Connected",
                  collections |-> {}]
        connected == [start EXCEPT !.database = "Available",
                                   !.connection_status = "Connected"]
        body == IF ~db THEN start
                ELSE IF listing.raised
                THEN [connected EXCEPT
                        !.database = ERROR_PREFIX \o Truncate(listing.text, ERROR_TRUNC)]
                ELSE [connected EXCEPT !.collections = list_collection_names,
                                       !.database = "Connected & Working"]
    IN  /\ response' = Resp("GET /test", None, listing, 200, body)
        /\ UNCHANGED <<db, env, inflight, now, store, issued, history>>

\* GET /support/resources
support_resources ==
    /\ response' = Resp("GET /support/resources", None, None, 200,
            [videos |-> <<[title |-> "Onboarding Tutorial",
                           url |-> "https://example.com/video-onboarding"]>>,
             faq |-> <<[q |-> "Como funciona o TIN em Angola?",
                        a |-> "O TIN possui 9 digitos. Validacao e automatica."]>>,
             contacts |-> [basic |-> <<"Email">>,
                           professional |-> <<"Email", "Chat">>,
                           enterprise |-> <<"Gestor dedicado">>]])
    /\ UNCHANGED <<db, env, inflight, now, store, issued, history>>

\* the clock advances by one instant
Tick ==
    /\ now' = now + 1
    /\ UNCHANGED <<db, env, inflight, store, issued, response, history>>

\* the clock advances by n days while no request is handled
Days(n) ==
    /\ now' = now + n * TicksPerDay
    /\ UNCHANGED <<db, env, inflight, store, issued, response, history>>

-----------------------------------------------------------------------------
(* the handlers step by step.  A thread takes one step per store call; the  *)
(* other threads and the clock can act between two steps of a request.      *)

\* POST /auth/register up to user = User(...): the unique-email lookup and the
\* construction of the document
register_find_one(t, payload, salt) ==
    LET out == register_check(payload)
    IN  /\ inflight[t] = Idle
        /\ IF out.ok
           THEN /\ inflight' = [inflight EXCEPT ![t] =
                       At("register_insert_user", None, payload,
                          [user |-> new_user(payload, salt)])]
                /\ UNCHANGED response
           ELSE /\ response' = Resp("POST /auth/register", None, payload,
                                    out.status, ErrBody(out))
                /\ UNCHANGED inflight
        /\ UNCHANGED <<db, env, now, store, issued, history>>

\* user_id = db["user"].insert_one(user.model_dump()).inserted_id
register_insert_user(t) ==
    LET user_id == inserted_id(users, "user")
        payload == inflight[t].request
    IN  /\ inflight[t].pc = "register_insert_user"
        /\ users' = insert_one(users, user_id, inflight[t].local.user)
        /\ registered' = registered \cup
                             {[email |-> payload.email, plan |-> payload.plan]}
        /\ inflight' = [inflight EXCEPT ![t] =
               At("register_insert_session", None, payload, [user_id |-> user_id])]
        /\ UNCHANGED <<db, env, now, sessions, clients, invoices, issued, response,
                       loggedOut, issuedTo, createdBy, invoicedBy>>

\* the token, db["session"].insert_one({...}) and the response
register_insert_session(t) ==
    LET token == token_urlsafe
        payload == inflight[t].request
    IN  /\ inflight[t].pc = "register_insert_session"
        /\ sessions' = insert_one(sessions, ObjectId("session", token),
                                  new_session(inflight[t].local.user_id, token))
        /\ issued' = issued + 1
        /\ issuedTo' = Append(issuedTo, payload.email)
        /\ response' = Resp("POST /auth/register", None, payload, 200,
                            [ok |-> TRUE, set_cookie |-> token])
        /\ inflight' = [inflight EXCEPT ![t] = Idle]
        /\ UNCHANGED <<db, env, now, users, clients, invoices,
                       loggedOut, registered, createdBy, invoicedBy>>

\* POST /clients: the dependency get_current_user
add_client_get_current_user(t, cookie, payload) ==
    LET auth == get_current_user(cookie)
    IN  /\ inflight[t] = Idle
        /\ IF auth.ok
           THEN /\ inflight' = [inflight EXCEPT ![t] =
                       At("add_client_count", cookie, payload, [user |-> auth.user])]
                /\ UNCHANGED response
           ELSE /\ response' = Resp("POST /clients", cookie, payload,
                                    auth.status, ErrBody(auth))
                /\ UNCHANGED inflight
        /\ UNCHANGED <<db, env, now, store, issued, history>>

\* current_count = db["client"].count_documents(...), the limit test and
\* data = Client(...)
add_client_count(t) ==
    LET user == inflight[t].local.user
        payload == inflight[t].request
        limits == get_plan_limits(user)
        current_count == count_documents(clients, Eq([owner_id |-> user._id]))
        out == IF limits.client_limit # None /\ current_count >= limits.client_limit[1]
               THEN HTTPError(402, "Client limit reached for your plan. Please upgrade.")
               ELSE IF ~(validate_tin(payload.tin) /\ validate_phone(payload.phone))
               THEN ServerError
               ELSE [ok |-> TRUE]
    IN  /\ inflight[t].pc = "add_client_count"
        /\ IF out.ok
           THEN /\ inflight' = [inflight EXCEPT ![t].pc = "add_client_insert"]
                /\ UNCHANGED response
           ELSE /\ response' = Resp("POST /clients", inflight[t].cookie, payload,
                                    out.status, ErrBody(out))
                /\ inflight' = [inflight EXCEPT ![t] = Idle]
        /\ UNCHANGED <<db, env, now, store, issued, history>>

\* new_id = db["client"].insert_one(data.model_dump()).inserted_id and the
\* response
add_client_insert(t) ==
    LET user == inflight[t].local.user
        payload == inflight[t].request
        cookie == inflight[t].cookie
        new_id == inserted_id(clients, "client")
    IN  /\ inflight[t].pc = "add_client_insert"
        /\ clients' = insert_one(clients, new_id,
                                 [owner_id |-> str(user._id)] @@ payload)
        /\ response' = Resp("POST /clients", cookie, payload, 200, [id |-> str(new_id)])
        /\ createdBy' = Append(createdBy, issuedTo[cookie[1]])
        /\ inflight' = [inflight EXCEPT ![t] = Idle]
        /\ UNCHANGED <<db, env, now, users, sessions, invoices, issued,
                       loggedOut, issuedTo, registered, invoicedBy>>

\* POST /invoices: the dependency get_current_user
create_invoice_get_current_user(t, cookie, payload) ==
    LET auth == get_current_user(cookie)
    IN  /\ inflight[t] = Idle
        /\ IF auth.ok
           THEN /\ inflight' = [inflight EXCEPT ![t] =
                       At("create_invoice_count", cookie, payload, [user |-> auth.user])]
                /\ UNCHANGED response
           ELSE /\ response' = Resp("POST /invoices", cookie, payload,
                                    auth.status, ErrBody(auth))
                /\ UNCHANGED inflight
        /\ UNCHANGED <<db, env, now, store, issued, history>>

\* the limit test with its count_documents, and inv = Invoice(...)
create_invoice_count(t) ==
    LET user == inflight[t].local.user
        payload == inflight[t].request
        limits == get_plan_limits(user)
        out == IF /\ user.subscription.plan = "basic"
                  /\ limits.invoice_monthly_limit # None
                  /\ monthly_count(user) >= limits.invoice_monthly_limit[1]
               THEN HTTPError(402, "Monthly invoice limit reached for BASIC plan.")
               ELSE IF ~(/\ amount_ok(invoice_fields(payload).amount)
                         /\ no_future_issue_date(invoice_fields(payload).date_issued))
               THEN ServerError
               ELSE [ok |-> TRUE]
    IN  /\ inflight[t].pc = "create_invoice_count"
        /\ IF out.ok
           THEN /\ inflight' = [inflight EXCEPT ![t].pc = "create_invoice_created_at"]
                /\ UNCHANGED response
           ELSE /\ response' = Resp("POST /invoices", inflight[t].cookie, payload,
                                    out.status, ErrBody(out))
                /\ inflight' = [inflight EXCEPT ![t] = Idle]
        /\ UNCHANGED <<db, env, now, store, issued, history>>

\* data["created_at"] = datetime.utcnow()
create_invoice_created_at(t) ==
    /\ inflight[t].pc = "create_invoice_created_at"
    /\ inflight' = [inflight EXCEPT
           ![t].pc = "create_invoice_updated_at",
           ![t].local = [user |-> inflight[t].local.user, created_at |-> now]]
    /\ UNCHANGED <<db, env, now, store, issued, response, history>>

\* data["updated_at"] = datetime.utcnow(), db["invoice"].insert_one(data) and
\* the response
create_invoice_updated_at(t) ==
    LET user == inflight[t].local.user
        payload == inflight[t].request
        cookie == inflight[t].cookie
        new_id == inserted_id(invoices, "invoice")
    IN  /\ inflight[t].pc = "create_invoice_updated_at"
        /\ invoices' = insert_one(invoices, new_id,
                           [owner_id |-> str(user._id), status |-> "draft",
                            created_at |-> inflight[t].local.created_at,
                            updated_at |-> now]
                           @@ invoice_fields(payload))
        /\ response' = Resp("POST /invoices", cookie, payload, 200, [id |-> str(new_id)])
        /\ invoicedBy' = Append(invoicedBy, issuedTo[cookie[1]])
        /\ inflight' = [inflight EXCEPT ![t] = Idle]
        /\ UNCHANGED <<db, env, now, users, sessions, clients, issued,
                       loggedOut, issuedTo, registered, createdBy>>

-----------------------------------------------------------------------------
(* the state after the process has started *)

NoResponse == Resp("", None, None, 0, None)

Init ==
    /\ db \in BOOLEAN
    /\ env \in [DATABASE_URL : BOOLEAN, DATABASE_NAME : BOOLEAN]
    /\ now = 0
    /\ users = << >>
    /\ sessions = << >>
    /\ clients = << >>
    /\ invoices = << >>
    /\ issued = 0
    /\ response = NoResponse
    /\ inflight = [t \in Threads |-> Idle]
    /\ loggedOut = {}
    /\ issuedTo = << >>
    /\ registered = {}
    /\ createdBy = << >>
    /\ invoicedBy = << >>

\* the same, with both configuration values set
InitConfigured == Init /\ env.DATABASE_URL /\ env.DATABASE_NAME

-----------------------------------------------------------------------------
(* sample requests *)

TIN_VALID == <<"1", "2", "3", "4", "5", "6", "7", "8", "9">>
TIN_SHORT == <<"1", "2", "3", "4", "5">>
TIN_ALPHA == <<"1", "2", "3", "4", "5", "6", "7", "8", "a">>
PHONE_VALID == <<"+", "2", "4", "4", "9", "2", "3", "4", "5", "6", "7", "8", "9">>
PHONE_SHORT == <<"+", "2", "4", "4", "9", "2", "3", "4", "5", "6", "7", "8">>
PHONE_PREFIXED == <<"+", "3", "5", "1", "9", "2", "3", "4", "5", "6", "7", "8", "9">>

AuthRequest(name, email, password, plan, company_tin, phone) ==
    [name |-> name, email |-> email, password |-> password, plan |-> plan,
     company_name |-> None, company_tin |-> company_tin, phone |-> phone]

LoginRequest(email, password) == [email |-> email, password |-> password]

ClientCreate(name, tin, phone) ==
    [name |-> name, email |-> None, phone |-> phone, tin |-> tin,
     address |-> None, notes |-> None]

InvoiceCreate(amount, date_issued) ==
    [client_id |-> "c1", amount |-> amount, currency |-> "AOA",
     description |-> None, date_issued |-> date_issued, due_date |-> None]

-----------------------------------------------------------------------------
(* accounts: register, login, logout and /auth/me *)

MaxTokens == 3

AuthRegisterInputs ==
    {AuthRequest(Some("Ana"), "a@x.ao", "pw1", "basic", Some(TIN_VALID), Some(PHONE_VALID)),
     AuthRequest(None, "a@x.ao", "pw2", "professional", None, None),
     AuthRequest(None, "b@x.ao", "pw2", "enterprise", None, None),
     AuthRequest(None, "b@x.ao", "pw1", "gold", None, None),
     AuthRequest(None, "a@x.ao", "pw1", "enterprise", Some(TIN_SHORT), None)}

AuthLoginInputs ==
    {LoginRequest(e, p) : e \in {"a@x.ao", "b@x.ao", "c@x.ao"}, p \in {"pw1", "pw2"}}

NextAuth ==
    \/ \E p \in AuthRegisterInputs, salt \in Salts : issued < MaxTokens /\ register(p, salt)
    \/ \E p \in AuthLoginInputs : issued < MaxTokens /\ login(p)
    \/ \E c \in Cookies : logout(c)
    \/ \E c \in Cookies : me(c)

SpecAuth == InitConfigured /\ [][NextAuth]_vars

-----------------------------------------------------------------------------
(* sessions: every protected endpoint, few documents *)

MaxSessionTokens == 2
MaxDocs == 1

SessionRegisterInputs ==
    {AuthRequest(None, "a@x.ao", "pw1", "basic", None, None),
     AuthRequest(None, "b@x.ao", "pw2", "enterprise", None, None)}

SessionLoginInputs == {LoginRequest("a@x.ao", "pw1"), LoginRequest("b@x.ao", "pw1")}

NextSession ==
    \/ \E p \in SessionRegisterInputs, salt \in Salts :
          issued < MaxSessionTokens /\ register(p, salt)
    \/ \E p \in SessionLoginInputs : issued < MaxSessionTokens /\ login(p)
    \/ \E c \in Cookies : logout(c)
    \/ \E c \in Cookies : me(c)
    \/ \E c \in Cookies : list_clients(c)
    \/ \E c \in Cookies :
          Len(clients) < MaxDocs /\ add_client(c, ClientCreate("Loja", None, None))
    \/ \E c \in Cookies : invoices_monthly_count(c)
    \/ \E c \in Cookies :
          Len(invoices) < MaxDocs /\ create_invoice(c, InvoiceCreate(100, None))
    \/ \E c \in Cookies : dashboard_summary(c)

SpecSession == InitConfigured /\ [][NextSession]_vars

-----------------------------------------------------------------------------
(* clients: two owners, well-formed and malformed TIN and phone *)

MaxClientTokens == 3
MaxClients == 2

ClientRegisterInputs ==
    {AuthRequest(None, "a@x.ao", "pw1", "basic", Some(TIN_VALID), None),
     AuthRequest(None, "b@x.ao", "pw2", "professional", None, Some(PHONE_VALID)),
     AuthRequest(None, "b@x.ao", "pw2", "basic", Some(TIN_ALPHA), None),
     AuthRequest(None, "a@x.ao", "pw1", "basic", Some(<< >>), Some(PHONE_PREFIXED))}

ClientInputs ==
    {ClientCreate("Loja", None, None),
     ClientCreate("Banca", Some(TIN_VALID), Some(PHONE_VALID)),
     ClientCreate("Banca", Some(TIN_SHORT), None),
     ClientCreate("Banca", Some(<< >>), Some(PHONE_SHORT))}

NextClients ==
    \/ \E p \in ClientRegisterInputs, salt \in Salts :
          issued < MaxClientTokens /\ register(p, salt)
    \/ issued < MaxClientTokens /\ login(LoginRequest("a@x.ao", "pw1"))
    \/ \E c \in Cookies, p \in ClientInputs : Len(clients) < MaxClients /\ add_client(c, p)
    \/ \E c \in Cookies : list_clients(c)

SpecClients == InitConfigured /\ [][NextClients]_vars

-----------------------------------------------------------------------------
(* plan limits: one owner, as many documents as the basic limits and one more *)

MaxOwners == 1
MaxOwnerClients == 16
MaxOwnerInvoices == 21

LimitRegisterInputs ==
    {AuthRequest(None, "a@x.ao", "pw1", plan, None, None) : plan \in PlanName}

NextLimits ==
    \/ \E p \in LimitRegisterInputs, salt \in Salts :
          Len(users) < MaxOwners /\ register(p, salt)
    \/ \E c \in Cookies :
          Len(clients) < MaxOwnerClients /\ add_client(c, ClientCreate("Loja", None, None))
    \/ \E c \in Cookies :
          Len(invoices) < MaxOwnerInvoices /\ create_invoice(c, InvoiceCreate(100, None))
    \/ \E c \in Cookies : dashboard_summary(c)

SpecLimits == InitConfigured /\ [][NextLimits]_vars

-----------------------------------------------------------------------------
(* invoices: amounts and issue dates around today, the clock running *)

MaxNow == 2
MaxInvoices == 2

InvoiceRegisterInputs ==
    {AuthRequest(None, "a@x.ao", "pw1", "basic", None, None),
     AuthRequest(None, "b@x.ao", "pw2", "professional", None, None)}

\* amounts in hundredths: -1.00, 0, 0.01; no date, today's, tomorrow's
InvoiceInputs ==
    {InvoiceCreate(amount, d) :
        amount \in {-100, 0, 1},
        d \in {None} \cup {Some(today + k) : k \in 0..1}}

NextInvoices ==
    \/ \E p \in InvoiceRegisterInputs, salt \in Salts : register(p, salt)
    \/ \E c \in Cookies, p \in InvoiceInputs :
          Len(invoices) < MaxInvoices /\ create_invoice(c, p)
    \/ \E c \in Cookies : invoices_monthly_count(c)
    \/ now < MaxNow /\ Tick

SpecInvoices == InitConfigured /\ [][NextInvoices]_vars

-----------------------------------------------------------------------------
(* diagnostics: every configuration, the listing succeeding or raising *)

\* an exception text of n characters
ErrorText(n) == [i \in 1..n |-> IF i % 2 = 1 THEN "e" ELSE "r"]

ErrorLengths == {0, 1, 79, 80, 81, 100}

Listings ==
    {[raised |-> FALSE, text |-> << >>]}
        \cup {[raised |-> TRUE, text |-> ErrorText(n)] : n \in ErrorLengths}

NextDiag ==
    \/ \E l \in Listings : test_database(l)
    \/ read_root
    \/ support_resources
    \/ \E p \in InvoiceRegisterInputs, salt \in Salts : register(p, salt)

SpecDiag == Init /\ [][NextDiag]_vars

-----------------------------------------------------------------------------
(* the month window: one basic owner, the clock running into the next month *)

MaxMonthInvoices == 2

\* the instants of one calendar month, and the last instant the clock reaches:
\* one instant into the second day of the following month
MonthTicks == TicksPerDay * DaysPerMonth
LastInstant == MonthTicks + TicksPerDay

MonthRegisterInputs == {AuthRequest(None, "a@x.ao", "pw1", "basic", None, None)}

NextMonth ==
    \/ \E p \in MonthRegisterInputs, salt \in Salts : register(p, salt)
    \/ \E c \in Cookies :
          Len(invoices) < MaxMonthInvoices /\ create_invoice(c, InvoiceCreate(100, None))
    \/ \E c \in Cookies : invoices_monthly_count(c)
    \/ now < LastInstant /\ Tick

SpecMonth == InitConfigured /\ [][NextMonth]_vars

-----------------------------------------------------------------------------
(* registrations handled concurrently *)

MaxRaceUsers == 2

RaceRegisterInputs ==
    {AuthRequest(None, "a@x.ao", "pw1", "basic", None, None),
     AuthRequest(None, "a@x.ao", "pw2", "professional", None, None),
     AuthRequest(None, "b@x.ao", "pw2", "enterprise", None, None)}

NextRegisterRace ==
    \/ \E t \in Threads, p \in RaceRegisterInputs, salt \in Salts :
          Len(users) < MaxRaceUsers /\ register_find_one(t, p, salt)
    \/ \E t \in Threads : register_insert_user(t)
    \/ \E t \in Threads : register_insert_session(t)
    \/ \E c \in Cookies : me(c)

SpecRegisterRace == InitConfigured /\ [][NextRegisterRace]_vars

-----------------------------------------------------------------------------
(* POST /clients step by step: one owner, requests one at a time or         *)
(* overlapping                                                              *)

\* no thread is inside a handler
AllIdle == \A t \in Threads : inflight[t] = Idle

\* a request is taken up only when no other is being handled
NextClientsSerial ==
    \/ \E p \in LimitRegisterInputs, salt \in Salts :
          Len(users) < MaxOwners /\ register(p, salt)
    \/ \E t \in Threads, c \in Cookies :
          /\ AllIdle
          /\ Len(clients) < MaxOwnerClients
          /\ add_client_get_current_user(t, c, ClientCreate("Loja", None, None))
    \/ \E t \in Threads : add_client_count(t)
    \/ \E t \in Threads : add_client_insert(t)

SpecClientsSerial == InitConfigured /\ [][NextClientsSerial]_vars

\* a request is taken up by any idle thread
NextClientsRace ==
    \/ \E p \in LimitRegisterInputs, salt \in Salts :
          Len(users) < MaxOwners /\ register(p, salt)
    \/ \E t \in Threads, c \in Cookies :
          /\ Len(clients) < MaxOwnerClients
          /\ add_client_get_current_user(t, c, ClientCreate("Loja", None, None))
    \/ \E t \in Threads : add_client_count(t)
    \/ \E t \in Threads : add_client_insert(t)

SpecClientsRace == InitConfigured /\ [][NextClientsRace]_vars

-----------------------------------------------------------------------------
(* the life of a session: logins, logouts, and the clock running past the  *)
(* expiry of the sessions created first                                    *)

MaxExpiryTokens == 2
MaxStartInstant == 0

\* the last instant the clock reaches: after the expiry of a session created
\* at MaxStartInstant
LastExpiryInstant == MaxStartInstant + SESSION_DAYS * TicksPerDay + 1

ExpiryRegisterInputs ==
    {AuthRequest(None, "a@x.ao", "pw1", "basic", None, None),
     AuthRequest(None, "b@x.ao", "pw2", "enterprise", None, None)}

ExpiryLoginInputs == {LoginRequest("a@x.ao", "pw1"), LoginRequest("a@x.ao", "pw2")}

NextExpiry ==
    \/ \E p \in ExpiryRegisterInputs, salt \in Salts :
          issued < MaxExpiryTokens /\ register(p, salt)
    \/ \E p \in ExpiryLoginInputs : issued < MaxExpiryTokens /\ login(p)
    \/ \E c \in Cookies : logout(c)
    \/ \E c \in Cookies : me(c)
    \/ \E c \in Cookies : list_clients(c)
    \/ (now < MaxStartInstant \/ (now >= SESSION_DAYS * TicksPerDay /\ now < LastExpiryInstant))
          /\ Tick
    \/ now <= MaxStartInstant /\ Days(SESSION_DAYS)

SpecExpiry == InitConfigured /\ [][NextExpiry]_vars

-----------------------------------------------------------------------------
(* requests that fail: every endpoint that writes, with requests it accepts *)
(* and requests it refuses                                                  *)

MaxErrorTokens == 2
MaxErrorDocs == 1

ErrorRegisterInputs ==
    {AuthRequest(None, "a@x.ao", "pw1", "basic", None, None),
     AuthRequest(None, "a@x.ao", "pw2", "professional", None, None),
     AuthRequest(None, "b@x.ao", "pw2", "gold", None, None),
     AuthRequest(None, "b@x.ao", "pw2", "basic", Some(TIN_SHORT), None)}

ErrorLoginInputs ==
    {LoginRequest("a@x.ao", "pw1"), LoginRequest("a@x.ao", "pw2"),
     LoginRequest("c@x.ao", "pw1")}

ErrorClientInputs ==
    {ClientCreate("Loja", None, None), ClientCreate("Banca", None, Some(PHONE_SHORT))}

\* amounts 1.00 and 0; no date and tomorrow's
ErrorInvoiceInputs ==
    {InvoiceCreate(amount, d) : amount \in {100, 0}, d \in {None, Some(today + 1)}}

NextErrors ==
    \/ \E p \in ErrorRegisterInputs, salt \in Salts :
          issued < MaxErrorTokens /\ register(p, salt)
    \/ \E p \in ErrorLoginInputs : issued < MaxErrorTokens /\ login(p)
    \/ \E c \in Cookies : me(c)
    \/ \E c \in Cookies, p \in ErrorClientInputs :
          Len(clients) < MaxErrorDocs /\ add_client(c, p)
    \/ \E c \in Cookies, p \in ErrorInvoiceInputs :
          Len(invoices) < MaxErrorDocs /\ create_invoice(c, p)

SpecErrors == InitConfigured /\ [][NextErrors]_vars

-----------------------------------------------------------------------------
(* POST /invoices step by step, the clock running between the steps *)

NextInvoiceClock ==
    \/ \E p \in MonthRegisterInputs, salt \in Salts :
          Len(users) < MaxOwners /\ register(p, salt)
    \/ \E t \in Threads, c \in Cookies :
          /\ Len(invoices) < MaxInvoices
          /\ create_invoice_get_current_user(t, c, InvoiceCreate(100, None))
    \/ \E t \in Threads : create_invoice_count(t)
    \/ \E t \in Threads : create_invoice_created_at(t)
    \/ \E t \in Threads : create_invoice_updated_at(t)
    \/ now < MaxNow /\ Tick

SpecInvoiceClock == InitConfigured /\ [][NextInvoiceClock]_vars

-----------------------------------------------------------------------------
(* logins: known and unknown emails, the registered password and others *)

MaxLoginTokens == 3

LoginRegisterInputs ==
    {AuthRequest(None, "a@x.ao", "pw1", "basic", None, None),
     AuthRequest(None, "b@x.ao", "pw2", "enterprise", None, None)}

LoginInputs ==
    {LoginRequest(e, p) : e \in {"a@x.ao", "b@x.ao", "c@x.ao"},
                          p \in {"pw1", "pw2", ""}}

NextLogin ==
    \/ \E p \in LoginRegisterInputs, salt \in Salts :
          issued < MaxLoginTokens /\ register(p, salt)
    \/ \E p \in LoginInputs : issued < MaxLoginTokens /\ login(p)
    \/ \E c \in Cookies : me(c)

SpecLogin == InitConfigured /\ [][NextLogin]_vars

-----------------------------------------------------------------------------
(* properties *)

ProtectedEndpoints ==
    {"GET /auth/me", "GET /clients", "POST /clients", "GET /invoices/monthly-count",
     "POST /invoices", "GET /dashboard/summary"}

\* the token the last request presented is one the server has issued
PresentsIssuedToken == response.cookie # None /\ response.cookie[1] \in 1..issued

\* the last request presented an issued token that no logout has carried
Authenticated == PresentsIssuedToken /\ response.cookie[1] \notin loggedOut

\* the account whose token the last request presented, and the plan it
\* registered with
Owner == issuedTo[response.cookie[1]]
PlanOf(email) == (CHOOSE r \in registered : r.email = email).plan

\* how many clients requests of the account have stored
CreatedCount(email) == Cardinality({i \in 1..Len(createdBy) : createdBy[i] = email})

\* how many invoices requests of the account have stored in the month of instant t
InvoicedCount(email, t) ==
    Cardinality({i \in 1..Len(invoicedBy) :
                    /\ invoicedBy[i] = email
                    /\ invoices[i].created_at >= MonthStart(t)})

AsciiDigits == {"0", "1", "2", "3", "4", "5", "6", "7", "8", "9"}
AllAsciiDigits(s) == \A i \in 1..Len(s) : s[i] \in AsciiDigits

\* a TIN that is present and is not 9 digits; a phone that is present and is
\* not +244 and 9 digits
MalformedTin(v) == v # None /\ v[1] # << >> /\ ~(Len(v[1]) = 9 /\ AllAsciiDigits(v[1]))
MalformedPhone(v) ==
    /\ v # None
    /\ v[1] # << >>
    /\ ~(/\ Len(v[1]) = 13
          /\ SubSeq(v[1], 1, 4) = <<"+", "2", "4", "4">>
          /\ AllAsciiDigits(SubSeq(v[1], 5, 13)))

\* C1: a well-formed POST /clients by an authenticated owner is answered 402
\* exactly when the owner's plan has a client_limit and the owner has already
\* created that many clients; otherwise it succeeds.  On basic the first 15
\* succeed and the 16th is answered 402.
C1_ClientLimitEnforced ==
    (response.endpoint = "POST /clients" /\ Authenticated)
    => LET limit == PLANS[PlanOf(Owner)].client_limit
           n == CreatedCount(Owner)
       IN  IF response.status = 200
           THEN limit = None \/ n - 1 < limit[1]
           ELSE response.status = 402 /\ limit # None /\ n >= limit[1]

\* C2: GET /clients by an authenticated owner returns exactly the clients
\* that owner's requests created, and none another owner created.
C2_ListReturnsOwnClients ==
    (response.endpoint = "GET /clients" /\ Authenticated)
    => /\ response.status = 200
       /\ {response.body[i].id : i \in 1..Len(response.body)}
            = {str(ObjectId("client", i)) :
                 i \in {j \in 1..Len(createdBy) : createdBy[j] = Owner}}

\* C3: a well-formed POST /invoices by an authenticated basic owner succeeds
\* while the owner has created fewer than 20 invoices in the month and is
\* answered 402 from the 21st on; on professional and enterprise it always
\* succeeds.
C3_InvoiceLimitEnforced ==
    (response.endpoint = "POST /invoices" /\ Authenticated)
    => LET n == InvoicedCount(Owner, response.at)
       IN  IF PlanOf(Owner) = "basic"
           THEN \/ response.status = 200 /\ n - 1 < BASIC_INVOICE_MONTHLY_LIMIT
                \/ response.status = 402 /\ n >= BASIC_INVOICE_MONTHLY_LIMIT
           ELSE response.status = 200

\* C7: POST /invoices by an authenticated owner with an amount <= 0 or a
\* date_issued after the day of the request is answered with the
\* invalid-input status 422, and no such invoice is ever stored.
C7_InvalidInvoiceRejected ==
    /\ (/\ response.endpoint = "POST /invoices"
         /\ Authenticated
         /\ (\/ response.request.amount <= 0
             \/ (/\ response.request.date_issued # None
                 /\ response.request.date_issued[1] > DayOf(response.at))))
        => response.status = 422
    /\ \A i \in 1..Len(invoices) :
          /\ invoices[i].amount > 0
          /\ invoices[i].date_issued <= DayOf(invoices[i].created_at)

\* C8: with the store available, a registration (unused email) or a POST
\* /clients (authenticated) with a malformed TIN or phone is answered 422, and
\* no user or client with a malformed TIN or phone is ever stored.
C8_MalformedTinPhoneRejected ==
    /\ (/\ response.endpoint = "POST /auth/register"
         /\ db
         /\ response.request.plan \in PlanName
         /\ (MalformedTin(response.request.company_tin)
               \/ MalformedPhone(response.request.phone))
         /\ \A i \in 1..Len(users) : users[i].email # response.request.email)
        => response.status = 422
    /\ (/\ response.endpoint = "POST /clients"
         /\ Authenticated
         /\ (MalformedTin(response.request.tin)
               \/ MalformedPhone(response.request.phone)))
        => response.status = 422
    /\ \A i \in 1..Len(users) :
          ~MalformedTin(users[i].company_tin) /\ ~MalformedPhone(users[i].phone)
    /\ \A i \in 1..Len(clients) :
          ~MalformedTin(clients[i].tin) /\ ~MalformedPhone(clients[i].phone)

\* C9: GET /dashboard/summary by an authenticated owner reports the number of
\* clients the owner created; warnings.clients is true exactly when the plan
\* has a client_limit > 0 and clients_count >= floor(0.8 * client_limit), and
\* warnings.invoices exactly when the plan is basic and invoices_this_month
\* >= floor(0.8 * 20).  On basic, 12 clients warn and 11 do not, 16 invoices
\* warn and 15 do not.
C9_DashboardWarnings ==
    (response.endpoint = "GET /dashboard/summary" /\ Authenticated)
    => LET body == response.body
           limit == PLANS[PlanOf(Owner)].client_limit
           created == CreatedCount(Owner)
           invoiced == InvoicedCount(Owner, response.at)
       IN  /\ response.status = 200
           /\ body.clients_count = created
           /\ body.warnings.clients
                = (limit # None /\ limit[1] > 0
                     /\ body.clients_count >= (8 * limit[1]) \div 10)
           /\ body.warnings.invoices
                = (PlanOf(Owner) = "basic" /\ body.invoices_this_month >= 16)
           /\ (PlanOf(Owner) = "basic" =>
                (/\ (created = 12 => body.warnings.clients)
                 /\ (created = 11 => ~body.warnings.clients)
                 /\ (invoiced = 16 => body.warnings.invoices)
                 /\ (invoiced = 15 => ~body.warnings.invoices)))

\* C10: GET /test is always answered 200: without a database handle the body
\* says the database is not available; when listing the collections raises,
\* the body carries the first 80 characters of the exception's text.
C10_DiagnosticsNeverFails ==
    response.endpoint = "GET /test"
    => /\ response.status = 200
       /\ (~db => response.body.database = "Not Available")
       /\ ((db /\ response.request.raised) =>
             LET text == response.request.text
                 shown == response.body.database
                 kept == IF Len(text) < 80 THEN Len(text) ELSE 80
             IN  /\ Len(shown) = Len(ERROR_PREFIX) + kept
                 /\ \A i \in 1..kept : shown[Len(ERROR_PREFIX) + i] = text[i])

\* the listing raised with a text longer than 80 characters
C10_Witness ==
    /\ response.endpoint = "GET /test"
    /\ db
    /\ response.request.raised
    /\ Len(response.request.text) > 80
    /\ response.status = 200

\* C4: once a logout carrying token t has completed, a request to a protected
\* endpoint that presents t is answered 401, whatever registrations and
\* logins have been handled since.
C4_LoggedOutTokenRejected ==
    (/\ response.endpoint \in ProtectedEndpoints
     /\ response.cookie # None
     /\ response.cookie[1] \in loggedOut)
    => response.status = 401

\* a token that was issued and logged out is presented to POST /clients after
\* a later token has been issued, and another session is live
C4_Witness ==
    /\ response.endpoint = "POST /clients"
    /\ PresentsIssuedToken
    /\ response.cookie[1] \in loggedOut
    /\ response.cookie[1] < issued
    /\ sessions # << >>
    /\ response.status = 401

\* C5: a well-formed registration whose email a stored user already has is
\* answered 400 and leaves the user and session collections, hence the
\* stored user's record, as they were.
C5_DuplicateEmailRejected ==
    [][(/\ response'.endpoint = "POST /auth/register"
        /\ response'.request.plan \in PlanName
        /\ \E i \in 1..Len(users) : users[i].email = response'.request.email)
       => (/\ response'.status = 400
           /\ response'.body.detail = "Email already registered"
           /\ users' = users
           /\ sessions' = sessions
           /\ issued' = issued)]_vars

\* a registration was refused with 400 although it asked for another plan
\* than the stored user of that email has
C5_Witness ==
    /\ response.endpoint = "POST /auth/register"
    /\ response.status = 400
    /\ \E i \in 1..Len(users) :
          /\ users[i].email = response.request.email
          /\ users[i].subscription.plan # response.request.plan
          /\ users[i].name = "Ana"

\* C6: GET /auth/me with a token that register or login issued for email e,
\* and that no logout has carried, answers 200 with email e and with the plan
\* every registration of e asked for.
C6_TokenResolvesToItsUser ==
    (/\ response.endpoint = "GET /auth/me"
     /\ PresentsIssuedToken
     /\ response.cookie[1] \notin loggedOut)
    => (/\ response.status = 200
        /\ response.body.email = issuedTo[response.cookie[1]]
        /\ \A r \in registered :
              r.email = response.body.email => r.plan = response.body.plan)

\* two users are registered and the second one's login token is presented
C6_Witness ==
    /\ response.endpoint = "GET /auth/me"
    /\ response.status = 200
    /\ Len(users) = 2
    /\ response.body.email = users[2].email
    /\ response.cookie[1] = 3

\* C11: GET /invoices/monthly-count by an authenticated owner reports exactly
\* the number of invoices that owner has created at or after the first
\* instant of the month of the request; invoices of earlier months are not
\* counted.
C11_MonthlyCountIsOwnersThisMonth ==
    (response.endpoint = "GET /invoices/monthly-count" /\ Authenticated)
    => /\ response.status = 200
       /\ response.body.count = InvoicedCount(Owner, response.at)

\* C12: no two documents of the user collection have the same email, also
\* when the steps of concurrent registrations interleave.
C12_EmailsUnique ==
    \A i, j \in 1..Len(users) : i # j => users[i].email # users[j].email

\* C13: when POST /clients requests do not overlap, the number of clients an
\* owner has created never exceeds the client_limit of the owner's plan.
C13_SerialRequestsStayWithinLimit ==
    \A r \in registered :
        PLANS[r.plan].client_limit # None
        => CreatedCount(r.email) <= PLANS[r.plan].client_limit[1]

\* the sessions that register and login created and whose token no logout
\* has carried
LiveTokens == {t \in 1..issued : t \notin loggedOut}

\* C14: a session created with token t stays in the store and resolves to
\* its user until a logout presenting t is handled: a step removes a session
\* only when it is a successful logout presenting that session's token, so
\* logouts with another token or without a cookie, logins, registrations and
\* the clock passing expires_at leave it valid; and, the store being
\* available, logout is answered 200 whether or not a session matches.
C14_SessionLivesUntilItsLogout ==
    /\ [](\A t \in LiveTokens :
            LET auth == get_current_user(Some(t))
            IN  /\ count_documents(sessions, Eq([token |-> t])) = 1
                /\ auth.ok
                /\ auth.user.email = issuedTo[t])
    /\ []((response.endpoint \in ProtectedEndpoints /\ Authenticated)
            => response.status = 200)
    /\ []((response.endpoint = "POST /auth/logout" /\ db) => response.status = 200)
    /\ [][\A i \in 1..Len(sessions) :
             (\A j \in 1..Len(sessions') : sessions'[j] # sessions[i])
             => (/\ response'.endpoint = "POST /auth/logout"
                 /\ response'.cookie = Some(sessions[i].token)
                 /\ response'.status = 200)]_vars

\* a token is presented after its session's expires_at, after a logout that
\* carried another issued token and a logout that matched no session, and is
\* answered 200
C14_Witness ==
    /\ response.endpoint = "GET /auth/me"
    /\ response.status = 200
    /\ \E i \in 1..Len(sessions) :
          /\ sessions[i].token = response.cookie[1]
          /\ sessions[i].expires_at < response.at
    /\ loggedOut \cap (1..issued) # {}
    /\ ForgedToken \in loggedOut

\* C15: a request that is answered with an error status leaves the user,
\* session, client and invoice collections as they were; a protected request
\* without a cookie is answered 401 "Not authenticated" and, the store being
\* available, one whose token no session has 401 "Invalid session".
C15_FailedRequestWritesNothing ==
    /\ [][response'.status >= 400 => store' = store]_vars
    /\ []((response.endpoint \in ProtectedEndpoints /\ response.cookie = None)
            => (/\ response.status = 401
                /\ response.body.detail = "Not authenticated"))
    /\ []((/\ response.endpoint \in ProtectedEndpoints
           /\ db
           /\ response.cookie \notin {None, Some(EmptyToken)}
           /\ find_one(sessions, Eq([token |-> response.cookie[1]])) = None)
            => (/\ response.status = 401
                /\ response.body.detail = "Invalid session"))

\* an authenticated owner who has stored a client is refused an invoice that
\* fails validation
C15_Witness ==
    /\ response.endpoint = "POST /invoices"
    /\ Authenticated
    /\ response.status >= 400
    /\ response.request.amount = 0
    /\ clients # << >>
    /\ Len(sessions) = 2

\* C16: every stored invoice has status "draft" and created_at equal to
\* updated_at, the clock being free to advance between any two steps of the
\* handler.
C16_StoredInvoiceDraftAndStampedOnce ==
    \A i \in 1..Len(invoices) :
        /\ invoices[i].status = "draft"
        /\ invoices[i].created_at = invoices[i].updated_at

\* C17: a POST /invoices without date_issued that succeeds stores an invoice
\* whose date_issued is the calendar day on which the request is handled,
\* also on a later day than the one the process started on.
C17_DefaultIssueDateIsRequestDay ==
    (/\ response.endpoint = "POST /invoices"
     /\ response.status = 200
     /\ response.request.date_issued = None)
    => invoices[Len(invoices)].date_issued = DayOf(response.at)

\* the stored users that have the email
UsersWithEmail(email) == {i \in 1..Len(users) : users[i].email = email}

\* p is the password the user's registration gave
IsRegisteredPassword(p, user) ==
    \E salt \in Salts : user.password_hash = hash_password(p, salt)

\* the login is answered 401 "Invalid credentials" and nothing else, and no
\* session is created
LoginRefused ==
    /\ response'.status = 401
    /\ response'.body = [detail |-> "Invalid credentials"]
    /\ sessions' = sessions
    /\ issued' = issued

\* C18: with the store available, a login is refused as above when no user
\* has the email or when the password is not the one the user registered
\* with; the two refusals are the same response.
C18_WrongPasswordRefused ==
    [][(/\ response'.endpoint = "POST /auth/login"
        /\ db
        /\ (\/ UsersWithEmail(response'.request.email) = {}
            \/ \E i \in UsersWithEmail(response'.request.email) :
                  ~IsRegisteredPassword(response'.request.password, users[i])))
       => LoginRefused]_vars

\* what login does guarantee: it is refused as above when no user has the
\* email or when the decimal text of the password's hash does not occur in
\* the stored password_hash
LoginRefusedUnlessVerified ==
    [][(/\ response'.endpoint = "POST /auth/login"
        /\ db
        /\ (\/ UsersWithEmail(response'.request.email) = {}
            \/ \E i \in UsersWithEmail(response'.request.email) :
                  ~password_matches(response'.request.password, users[i])))
       => LoginRefused]_vars

\* C19: in the body of GET /test, connection_status is "Connected" only when
\* the listing of the collection names succeeded; without a database handle
\* or when the listing raises, connection_status is "Not Connected" and
\* collections is empty.
C19_ConnectedOnlyWhenListingSucceeded ==
    response.endpoint = "GET /test"
    => LET succeeded == db /\ ~response.request.raised
       IN  /\ response.body.connection_status = "Connected" => succeeded
           /\ ~succeeded => (/\ response.body.connection_status = "Not Connected"
                             /\ response.body.collections = {})

\* C20: every session's user_id is the _id of a stored user and every stored
\* user's plan is basic, professional or enterprise; so no request is
\* answered "User not found" and get_plan_limits never falls back to basic
\* for a plan the catalogue does not have.
C20_SessionsHaveUsersAndPlansAreKnown ==
    /\ \A i \in 1..Len(sessions) :
          \E j \in 1..Len(users) : users[j]._id = sessions[i].user_id
    /\ \A j \in 1..Len(users) :
          /\ users[j].subscription.plan \in PlanName
          /\ users[j].subscription.plan \in DOMAIN PLANS
          /\ get_plan_limits(users[j]) = PLANS[users[j].subscription.plan]
    /\ response.status >= 400 => response.body.detail # "User not found"

\* two users with a session each, and a registration with an unknown plan
\* refused
C20_Witness ==
    /\ Len(users) = 2
    /\ {sessions[i].user_id : i \in 1..Len(sessions)} = {users[1]._id, users[2]._id}
    /\ response.endpoint = "POST /auth/register"
    /\ response.request.plan = "gold"
    /\ response.status = 422

====
